---- MODULE Spec2Model ----
(***************************************************************************)
(* State machine of the streamer session manager and event relay           *)
(* (src/index.ts) together with its lowdb token store (src/unnamed/        *)
(* part_000).  JavaScript runs one handler at a time, so every action is   *)
(* one run of a handler from its entry (or from the await it resumes at)   *)
(* to its next await or its end.                                           *)
(***************************************************************************)
EXTENDS Integers, Sequences, FiniteSets, TLC

(* ------------------------------ bounds --------------------------------- *)
MaxConns == 2
MaxClients == 2
MaxNotifs == 2
MaxSaves == 1
MaxRuns == 1

(* ------------------------------ values --------------------------------- *)
\* userId / channelId values the ingress layer and the validation endpoint use
Ids == {"a", "b"}
Tokens == {"t1", "t2"}
\* null / undefined
Null == "null"
\* HTTP statuses the upstream answers with
Statuses == {200, 401, 403, 500}
\* message shapes of a "notification": well formed, or lacking a field
Shapes == {"ok", "noEvent", "noSubscription"}
\* user_id of an event ("" and absent both become null in the envelope)
EventUserIds == {Null, "7"}
\* subscription.type of a notification
EventTypes == {"channel.hype_train.begin"}

VARIABLES
    dbData,            \* db.data.tokens: the in-memory array of {userId, token}
    dbFile,            \* tokens.json on disk
    writeQ,            \* db.write() calls not yet finished, in call order
    streamerSessions,  \* channelId -> index of its session in conns, 0: no entry
    conns,             \* every StreamerSession (with its ws) ever created
    widgetClients,     \* the array of downstream sockets
    clientState,       \* readyState of each downstream socket
    recv,              \* what each downstream socket was sent, in order
    rec,               \* checkAndConnectTokens: position, snapshot, outcomes
    pendingReg,        \* POST /registerStreamer requests save_token has in flight
    nNotif,            \* notifications that have arrived so far
    nSaves,            \* save_token requests handled so far
    lastOp             \* the handler that ran last

vars == <<dbData, dbFile, writeQ, streamerSessions, conns, widgetClients,
          clientState, recv, rec, pendingReg, nNotif, nSaves, lastOp>>

(* ------------------------------ helpers -------------------------------- *)
Range(s) == {s[i] : i \in 1..Len(s)}

\* lastOp names the handler that ran last when the rest of the state does not
\* tell what it handled (a registration, a reconnect directive, a malformed
\* notification, a response that is neither a success nor a 401 or 403, an
\* error event), and is Quiet after every other handler
Op(op, c, id) == [op |-> op, c |-> c, id |-> id]
Quiet == Op("-", 0, "")

Entry(userId, token) == [userId |-> userId, token |-> token]

\* tokens.json as earlier runs can have left it (save_token keeps one entry
\* per userId): a fresh install, and one with two saved accounts
InitialStores == {<<>>, <<Entry("a", "t1"), Entry("b", "t2")>>}

(* --------------------------- CredentialStore --------------------------- *)
\* save_token: update the entry of userId in place, or push a new one.
SaveEntry(tokens, userId, token) ==
    IF \E i \in 1..Len(tokens) : tokens[i].userId = userId
    THEN LET i == CHOOSE k \in 1..Len(tokens) :
                    /\ tokens[k].userId = userId
                    /\ \A j \in 1..(k - 1) : tokens[j].userId # userId
         IN  [tokens EXCEPT ![i].token = token]
    ELSE Append(tokens, Entry(userId, token))

\* tokens.filter(t => t.token !== token || t.userId !== userId)
RemoveEntry(tokens, userId, token) ==
    SelectSeq(tokens, LAMBDA t : t.token # token \/ t.userId # userId)

\* db.write(): the data is serialised when write() is called
Write(q, who, tokens) == Append(q, [who |-> who, snap |-> tokens])

(* ------------------------------ sessions ------------------------------- *)
events == <<"begin", "progress", "end">>

NoSession == 0

\* sessionId: null until the welcome message
NoSessionId == 0

\* The StreamerSession connectTwitchWS builds, with its socket.  src is the
\* userId of the credential the session was created from.
NewSession(token, channelId, src) ==
    [token |-> token, channelId |-> channelId, readyState |-> "CONNECTING",
     sessionId |-> NoSessionId, sub |-> "none", calls |-> <<>>, nRet |-> 0,
     authFail |-> FALSE, src |-> src]

\* connectTwitchWS: a new socket and session, stored under channelId.
ConnectConns(cs, token, channelId, src) ==
    Append(cs, NewSession(token, channelId, src))

ConnectSessions(reg, cs, channelId) ==
    [reg EXCEPT ![channelId] = Len(cs) + 1]

\* ws.close(): starts the closing handshake of a socket that is not yet closing
CloseSocket(state) ==
    IF state \in {"CONNECTING", "OPEN"} THEN "CLOSING" ELSE state

Live(s) == s.readyState \in {"CONNECTING", "OPEN"}

(* ------------------------------ ingress -------------------------------- *)
\* POST /api/save_token up to its await db.write()
SaveToken(userId, token) ==
    /\ nSaves < MaxSaves
    /\ dbData' = SaveEntry(dbData, userId, token)
    /\ writeQ' = Write(writeQ, [kind |-> "save", c |-> 0, userId |-> userId,
                                token |-> token], dbData')
    /\ nSaves' = nSaves + 1
    /\ lastOp' = Quiet
    /\ UNCHANGED <<dbFile, streamerSessions, conns, widgetClients, clientState,
                   recv, rec, pendingReg, nNotif>>

\* save_token after its db.write(): it posts {userId, token} to /registerStreamer
SaveWritten ==
    /\ writeQ # <<>>
    /\ Head(writeQ).who.kind = "save"
    /\ dbFile' = Head(writeQ).snap
    /\ writeQ' = Tail(writeQ)
    /\ pendingReg' = pendingReg \cup
                        {Entry(Head(writeQ).who.userId, Head(writeQ).who.token)}
    /\ lastOp' = Quiet
    /\ UNCHANGED <<dbData, streamerSessions, conns, widgetClients, clientState,
                   recv, rec, nNotif, nSaves>>

\* a registration that no longer looks at the registry
ShouldConnect_Always(reg, channelId) == TRUE

\* if (!streamerSessions[channelId])
ShouldConnect(reg, channelId) == reg[channelId] = NoSession

\* POST /registerStreamer: connect unless the account has an entry
RegisterStreamer(userId, token) ==
    /\ IF ShouldConnect(streamerSessions, userId)
       THEN /\ Len(conns) < MaxConns
            /\ conns' = ConnectConns(conns, token, userId, userId)
            /\ streamerSessions' = ConnectSessions(streamerSessions, conns, userId)
       ELSE UNCHANGED <<conns, streamerSessions>>
    /\ lastOp' = Op("registerStreamer", 0, userId)
    /\ UNCHANGED <<dbData, dbFile, writeQ, widgetClients, clientState, recv, rec,
                   nNotif, nSaves>>

\* the request save_token sent arrives
RegisterFromSave ==
    \E e \in pendingReg :
        /\ RegisterStreamer(e.userId, e.token)
        /\ pendingReg' = pendingReg \ {e}

\* a request from any other client of the endpoint
RegisterDirect ==
    \E userId \in Ids, token \in Tokens :
        /\ RegisterStreamer(userId, token)
        /\ UNCHANGED pendingReg

(* --------------------------- upstream socket --------------------------- *)
\* ws.onopen
WsOpen(c) ==
    /\ conns[c].readyState = "CONNECTING"
    /\ conns' = [conns EXCEPT ![c].readyState = "OPEN"]
    /\ lastOp' = Quiet
    /\ UNCHANGED <<dbData, dbFile, writeQ, streamerSessions, widgetClients,
                   clientState, recv, rec, pendingReg, nNotif, nSaves>>

\* ws.onerror: the connection has failed.  The socket is closed when its error
\* event is fired, and its close event follows in the same task; both
\* handlers only log.
WsError(c) ==
    /\ conns[c].readyState # "CLOSED"
    /\ conns' = [conns EXCEPT ![c].readyState = "CLOSED"]
    /\ lastOp' = Op("onerror", c, "")
    /\ UNCHANGED <<dbData, dbFile, writeQ, streamerSessions, widgetClients,
                   clientState, recv, rec, pendingReg, nNotif, nSaves>>

\* an onclose handler that connects again
WsClosed_Reconnects(c) ==
    /\ conns[c].readyState # "CLOSED"
    /\ IF Len(conns) < MaxConns
       THEN /\ conns' = ConnectConns([conns EXCEPT ![c].readyState = "CLOSED"],
                                     conns[c].token, conns[c].channelId,
                                     conns[c].src)
            /\ streamerSessions' = ConnectSessions(streamerSessions, conns,
                                                   conns[c].channelId)
       ELSE /\ conns' = [conns EXCEPT ![c].readyState = "CLOSED"]
            /\ UNCHANGED streamerSessions
    /\ lastOp' = Quiet
    /\ UNCHANGED <<dbData, dbFile, writeQ, widgetClients, clientState, recv,
                   rec, pendingReg, nNotif, nSaves>>

\* ws.onclose: the socket is closed (by the peer, the network, or the end of
\* the closing handshake); the handler only logs
WsClosed(c) ==
    /\ conns[c].readyState # "CLOSED"
    /\ conns' = [conns EXCEPT ![c].readyState = "CLOSED"]
    /\ lastOp' = Quiet
    /\ UNCHANGED <<dbData, dbFile, writeQ, streamerSessions, widgetClients,
                   clientState, recv, rec, pendingReg, nNotif, nSaves>>

\* `channel.hype_train.${e}`
HypeTrain(e) ==
    CASE e = "begin" -> "channel.hype_train.begin"
      [] e = "progress" -> "channel.hype_train.progress"
      [] e = "end" -> "channel.hype_train.end"

\* the body of one registration request
Call(s, e) ==
    [type |-> HypeTrain(e), broadcaster_user_id |-> s.channelId,
     session_id |-> s.sessionId, token |-> s.token]

\* a welcome handler that starts the run before it stores the session id
Welcome_CallBeforeAssign(c) ==
    /\ conns[c].readyState = "OPEN"
    /\ conns[c].sessionId = NoSessionId
    /\ Cardinality({k \in 1..Len(conns) : conns[k].sub # "none"}) < MaxRuns
    /\ conns' = [conns EXCEPT ![c] =
                    [@ EXCEPT !.sessionId = c, !.sub = "fetch",
                              !.calls = <<Call(conns[c], events[1])>>]]
    /\ lastOp' = Quiet
    /\ UNCHANGED <<dbData, dbFile, writeQ, streamerSessions, widgetClients,
                   clientState, recv, rec, pendingReg, nNotif, nSaves>>

\* ws.onmessage, session_welcome (the first message of a connection): the
\* session id is stored and subscribeToEvents runs up to its first fetch
Welcome(c) ==
    /\ conns[c].readyState = "OPEN"
    /\ conns[c].sessionId = NoSessionId
    /\ Cardinality({k \in 1..Len(conns) : conns[k].sub # "none"}) < MaxRuns
    /\ LET s == [conns[c] EXCEPT !.sessionId = c]
       IN  conns' = [conns EXCEPT ![c] =
                        [s EXCEPT !.sub = "fetch",
                                  !.calls = <<Call(s, events[1])>>]]
    /\ lastOp' = Quiet
    /\ UNCHANGED <<dbData, dbFile, writeQ, streamerSessions, widgetClients,
                   clientState, recv, rec, pendingReg, nNotif, nSaves>>

\* res.ok
Ok(status) == status \in 200..299

\* a check that takes every refusal for an authorization failure
IsUnauthorized_AnyRefusal(status) == ~Ok(status)

\* a check that knows 401 only
IsUnauthorized_Only401(status) == ~Ok(status) /\ status = 401

\* !res.ok && (res.status === 401 || res.status === 403)
IsUnauthorized(status) == ~Ok(status) /\ (status = 401 \/ status = 403)

\* subscribeToEvents resumes with the response of its fetch
SubResponse(c, status) ==
    /\ conns[c].sub = "fetch"
    /\ LET s == [conns[c] EXCEPT !.nRet = @ + 1,
                                 !.authFail = @ \/ status \in {401, 403}]
       IN  conns' = [conns EXCEPT ![c] =
                IF IsUnauthorized(status)
                THEN [s EXCEPT !.sub = "dbread"]
                ELSE IF Len(s.calls) < Len(events)
                     THEN [s EXCEPT !.calls =
                                Append(@, Call(s, events[Len(s.calls) + 1]))]
                     ELSE [s EXCEPT !.sub = "done"]]
    /\ lastOp' = IF Ok(status) \/ status \in {401, 403}
                 THEN Quiet
                 ELSE Op("refused", c, "")
    /\ UNCHANGED <<dbData, dbFile, writeQ, streamerSessions, widgetClients,
                   clientState, recv, rec, pendingReg, nNotif, nSaves>>

\* the fetch rejects (no response): subscribeToEvents ends with the exception
SubThrew(c) ==
    /\ conns[c].sub = "fetch"
    /\ conns' = [conns EXCEPT ![c].sub = "threw"]
    /\ lastOp' = Quiet
    /\ UNCHANGED <<dbData, dbFile, writeQ, streamerSessions, widgetClients,
                   clientState, recv, rec, pendingReg, nNotif, nSaves>>

\* subscribeToEvents after await db.read(): filter the tokens, call db.write()
SubRead(c) ==
    /\ conns[c].sub = "dbread"
    /\ dbData' = RemoveEntry(dbFile, conns[c].channelId, conns[c].token)
    /\ writeQ' = Write(writeQ, [kind |-> "sub", c |-> c, userId |-> "",
                                token |-> ""], dbData')
    /\ conns' = [conns EXCEPT ![c].sub = "dbwrite"]
    /\ lastOp' = Quiet
    /\ UNCHANGED <<dbFile, streamerSessions, widgetClients, clientState, recv,
                   rec, pendingReg, nNotif, nSaves>>

\* const session = streamerSessions[channelId]; if open, session.ws.close()
CloseAssociated(cs, reg, channelId) ==
    IF reg[channelId] # NoSession /\ cs[reg[channelId]].readyState = "OPEN"
    THEN [cs EXCEPT ![reg[channelId]].readyState = CloseSocket(@)]
    ELSE cs

\* subscribeToEvents after await db.write(): close the socket and break
SubWritten ==
    /\ writeQ # <<>>
    /\ Head(writeQ).who.kind = "sub"
    /\ LET c == Head(writeQ).who.c
       IN  /\ conns' = [CloseAssociated(conns, streamerSessions,
                                        conns[c].channelId)
                            EXCEPT ![c].sub = "revoked"]
           /\ lastOp' = Quiet
    /\ dbFile' = Head(writeQ).snap
    /\ writeQ' = Tail(writeQ)
    /\ UNCHANGED <<dbData, streamerSessions, widgetClients, clientState, recv,
                   rec, pendingReg, nNotif, nSaves>>

\* event.user_id || null
OrNull(x) == IF x \in {Null, ""} THEN Null ELSE x

Envelope(channelId, type, n, uid) ==
    [channelId |-> channelId, eventType |-> type, event |-> n,
     userId |-> OrNull(uid)]

\* a fan-out that sends without looking at readyState
RECURSIVE Broadcast_NoStateCheck(_, _, _, _)
Broadcast_NoStateCheck(clients, state, rcv, env) ==
    IF clients = <<>> THEN rcv
    ELSE Broadcast_NoStateCheck(Tail(clients), state,
                                [rcv EXCEPT ![Head(clients)] = Append(@, env)],
                                env)

\* widgetClients.forEach(client => { if (client.readyState === OPEN) send })
RECURSIVE Broadcast(_, _, _, _)
Broadcast(clients, state, rcv, env) ==
    IF clients = <<>> THEN rcv
    ELSE Broadcast(Tail(clients), state,
                   IF state[Head(clients)] = "OPEN"
                   THEN [rcv EXCEPT ![Head(clients)] = Append(@, env)]
                   ELSE rcv,
                   env)

\* a notification handler that sends an envelope whatever the payload holds
Notification_AnyShape(c, shape, type, uid) ==
    /\ conns[c].readyState = "OPEN"
    /\ nNotif < MaxNotifs
    /\ nNotif' = nNotif + 1
    /\ recv' = Broadcast(widgetClients, clientState, recv,
                         Envelope(conns[c].channelId, type, nNotif', uid))
    /\ lastOp' = IF shape = "ok" THEN Quiet ELSE Op("malformed", c, "")
    /\ UNCHANGED <<dbData, dbFile, writeQ, streamerSessions, conns,
                   widgetClients, clientState, rec, pendingReg, nSaves>>

\* ws.onmessage, notification.  A payload without subscription or without
\* event makes the first send to an open client throw before it sends: the
\* handler ends there, and the runtime reports the rejection and goes on.
Notification(c, shape, type, uid) ==
    /\ conns[c].readyState = "OPEN"
    /\ nNotif < MaxNotifs
    /\ nNotif' = nNotif + 1
    /\ recv' = IF shape = "ok"
               THEN Broadcast(widgetClients, clientState, recv,
                              Envelope(conns[c].channelId, type, nNotif', uid))
               ELSE recv
    /\ lastOp' = IF shape = "ok" THEN Quiet ELSE Op("malformed", c, "")
    /\ UNCHANGED <<dbData, dbFile, writeQ, streamerSessions, conns,
                   widgetClients, clientState, rec, pendingReg, nSaves>>

\* a reconnect handler that leaves the old socket open
ReconnectConns_NoClose(cs, c) ==
    ConnectConns(cs, cs[c].token, cs[c].channelId, cs[c].src)

\* ws.close(); connectTwitchWS(token, channelId)
ReconnectConns(cs, c) ==
    ConnectConns([cs EXCEPT ![c].readyState = CloseSocket(@)],
                 cs[c].token, cs[c].channelId, cs[c].src)

\* ws.onmessage, session_reconnect
Reconnect(c) ==
    /\ conns[c].readyState = "OPEN"
    /\ Len(conns) < MaxConns
    /\ conns' = ReconnectConns(conns, c)
    /\ streamerSessions' = ConnectSessions(streamerSessions, conns,
                                          conns[c].channelId)
    /\ lastOp' = Op("session_reconnect", c, conns[c].channelId)
    /\ UNCHANGED <<dbData, dbFile, writeQ, widgetClients, clientState, recv,
                   rec, pendingReg, nNotif, nSaves>>

(* ------------------------- startup reconciliation ---------------------- *)
\* info.user_id ?? userId
TwitchUserId(user_id, userId) == IF user_id = Null THEN userId ELSE user_id

\* the loop of checkAndConnectTokens goes on to its next entry, or ends
RecNext(r) ==
    [r EXCEPT !.pc = IF Len(r.res) < Len(r.snap) THEN "validate" ELSE "done"]

\* checkAndConnectTokens after await db.read(): copy the tokens, first fetch
RecRead ==
    /\ rec.pc = "read"
    /\ dbData' = dbFile
    /\ rec' = RecNext([rec EXCEPT !.snap = dbData'])
    /\ lastOp' = Quiet
    /\ UNCHANGED <<dbFile, writeQ, streamerSessions, conns, widgetClients,
                   clientState, recv, pendingReg, nNotif, nSaves>>

\* the validation of the current entry is refused: remove it, db.write()
RecInvalid(status) ==
    /\ rec.pc = "validate"
    /\ ~Ok(status)
    /\ LET e == rec.snap[Len(rec.res) + 1]
       IN  /\ dbData' = RemoveEntry(dbData, e.userId, e.token)
           /\ writeQ' = Write(writeQ, [kind |-> "rec", c |-> 0, userId |-> "",
                                       token |-> ""], dbData')
           /\ rec' = [rec EXCEPT !.pc = "write",
                                 !.res = Append(@, [ok |-> FALSE, id |-> Null])]
           /\ lastOp' = Quiet
    /\ UNCHANGED <<dbFile, streamerSessions, conns, widgetClients, clientState,
                   recv, pendingReg, nNotif, nSaves>>

\* checkAndConnectTokens after await db.write(): continue
RecWritten ==
    /\ writeQ # <<>>
    /\ Head(writeQ).who.kind = "rec"
    /\ dbFile' = Head(writeQ).snap
    /\ writeQ' = Tail(writeQ)
    /\ rec' = RecNext(rec)
    /\ lastOp' = Quiet
    /\ UNCHANGED <<dbData, streamerSessions, conns, widgetClients, clientState,
                   recv, pendingReg, nNotif, nSaves>>

\* the current entry is valid: connectTwitchWS(token, twitchUserId)
RecValid(status, user_id) ==
    /\ rec.pc = "validate"
    /\ Ok(status)
    /\ Len(conns) < MaxConns
    /\ LET e == rec.snap[Len(rec.res) + 1]
           twitchUserId == TwitchUserId(user_id, e.userId)
       IN  /\ conns' = ConnectConns(conns, e.token, twitchUserId, e.userId)
           /\ streamerSessions' =
                  ConnectSessions(streamerSessions, conns, twitchUserId)
           /\ rec' = RecNext([rec EXCEPT !.res =
                                Append(@, [ok |-> TRUE, id |-> twitchUserId])])
           /\ lastOp' = Quiet
    /\ UNCHANGED <<dbData, dbFile, writeQ, widgetClients, clientState, recv,
                   pendingReg, nNotif, nSaves>>

\* the validation fetch rejects: the catch logs, the loop goes on
RecThrew ==
    /\ rec.pc = "validate"
    /\ rec' = RecNext([rec EXCEPT !.res = Append(@, [ok |-> FALSE, id |-> "threw"])])
    /\ lastOp' = Quiet
    /\ UNCHANGED <<dbData, dbFile, writeQ, streamerSessions, conns,
                   widgetClients, clientState, recv, pendingReg, nNotif, nSaves>>

(* ------------------------------ listeners ------------------------------ *)
\* a filter whose result is not assigned back to widgetClients
RemoveClient_NotAssigned(clients, l) == clients

\* widgetClients.filter(client => client !== ws)
RemoveClient(clients, l) == SelectSeq(clients, LAMBDA x : x # l)

\* server.on("upgrade"): a downstream socket is accepted
Upgrade(l) ==
    /\ clientState[l] = "NONE"
    /\ \A k \in 1..(l - 1) : clientState[k] # "NONE"
    /\ widgetClients' = Append(widgetClients, l)
    /\ clientState' = [clientState EXCEPT ![l] = "OPEN"]
    /\ lastOp' = Quiet
    /\ UNCHANGED <<dbData, dbFile, writeQ, streamerSessions, conns, recv, rec,
                   pendingReg, nNotif, nSaves>>

\* a downstream socket starts closing: no longer OPEN, its close event pending
ClientClosing(l) ==
    /\ clientState[l] = "OPEN"
    /\ clientState' = [clientState EXCEPT ![l] = "CLOSING"]
    /\ lastOp' = Quiet
    /\ UNCHANGED <<dbData, dbFile, writeQ, streamerSessions, conns,
                   widgetClients, recv, rec, pendingReg, nNotif, nSaves>>

\* ws.on("close") of a downstream socket
ClientClosed(l) ==
    /\ clientState[l] \in {"OPEN", "CLOSING"}
    /\ clientState' = [clientState EXCEPT ![l] = "CLOSED"]
    /\ widgetClients' = RemoveClient(widgetClients, l)
    /\ lastOp' = Quiet
    /\ UNCHANGED <<dbData, dbFile, writeQ, streamerSessions, conns, recv, rec,
                   pendingReg, nNotif, nSaves>>

Init ==
    /\ dbFile \in InitialStores
    /\ dbData = dbFile
    /\ writeQ = <<>>
    /\ streamerSessions = [id \in Ids |-> NoSession]
    /\ conns = <<>>
    /\ widgetClients = <<>>
    /\ clientState = [l \in 1..MaxClients |-> "NONE"]
    /\ recv = [l \in 1..MaxClients |-> <<>>]
    /\ rec = [pc |-> "read", snap |-> <<>>, res |-> <<>>]
    /\ pendingReg = {}
    /\ nNotif = 0
    /\ nSaves = 0
    /\ lastOp = Quiet

\* the ingress layer and the token store
Ingress ==
    \/ \E userId \in Ids, token \in Tokens : SaveToken(userId, token)
    \/ SaveWritten
    \/ RegisterFromSave
    \/ RegisterDirect

\* the upstream socket of a session, and its subscribeToEvents run
Upstream ==
    \/ \E c \in 1..Len(conns) : WsOpen(c)
    \/ \E c \in 1..Len(conns) : WsClosed(c)
    \/ \E c \in 1..Len(conns) : WsError(c)
    \/ \E c \in 1..Len(conns) : Welcome(c)
    \/ \E c \in 1..Len(conns), status \in Statuses : SubResponse(c, status)
    \/ \E c \in 1..Len(conns) : SubThrew(c)
    \/ \E c \in 1..Len(conns) : SubRead(c)
    \/ SubWritten
    \/ \E c \in 1..Len(conns) : Reconnect(c)

\* checkAndConnectTokens
Startup ==
    \/ RecRead
    \/ \E status \in Statuses : RecInvalid(status)
    \/ RecWritten
    \/ \E status \in Statuses, user_id \in Ids \cup {Null} :
          RecValid(status, user_id)
    \/ RecThrew

\* the downstream sockets and the fan-out of notifications
Hub ==
    \/ \E c \in 1..Len(conns), shape \in Shapes, type \in EventTypes,
          uid \in EventUserIds : Notification(c, shape, type, uid)
    \/ \E l \in 1..MaxClients : Upgrade(l)
    \/ \E l \in 1..MaxClients : ClientClosing(l)
    \/ \E l \in 1..MaxClients : ClientClosed(l)

Next == Ingress \/ Upstream \/ Startup \/ Hub

Spec == Init /\ [][Next]_vars

\* The session side alone, with no save_token request: no downstream socket
\* connects and no notification arrives.  The Hub actions read conns and
\* write only widgetClients, clientState, recv, nNotif and lastOp.
SessionNext == RegisterDirect \/ Upstream \/ Startup

SessionSpec == Init /\ [][SessionNext]_vars

\* The token store with its three writers (save_token, the startup
\* reconciliation, the revocation of subscribeToEvents)
StoreNext ==
    \/ \E userId \in Ids, token \in Tokens : SaveToken(userId, token)
    \/ SaveWritten
    \/ RegisterFromSave
    \/ \E c \in 1..Len(conns) : WsOpen(c)
    \/ \E c \in 1..Len(conns) : WsClosed(c)
    \/ \E c \in 1..Len(conns) : Welcome(c)
    \/ \E c \in 1..Len(conns), status \in Statuses : SubResponse(c, status)
    \/ \E c \in 1..Len(conns) : SubRead(c)
    \/ SubWritten
    \/ Startup

StoreSpec == Init /\ [][StoreNext]_vars

\* The relay on a fresh install (an empty tokens.json)
HubInit == Init /\ dbFile = <<>>

HubNext ==
    \/ RegisterDirect
    \/ \E c \in 1..Len(conns) : WsOpen(c)
    \/ \E c \in 1..Len(conns) : WsClosed(c)
    \/ \E c \in 1..Len(conns) : Reconnect(c)
    \/ RecRead
    \/ Hub

HubSpec == HubInit /\ [][HubNext]_vars

\* The relay with its registration runs, on a fresh install: messages of a
\* session arrive while the run its welcome started is suspended
RelayNext ==
    \/ RegisterDirect
    \/ \E c \in 1..Len(conns) : WsOpen(c)
    \/ \E c \in 1..Len(conns) : Welcome(c)
    \/ \E c \in 1..Len(conns), status \in Statuses : SubResponse(c, status)
    \/ \E c \in 1..Len(conns) : SubRead(c)
    \/ SubWritten
    \/ \E c \in 1..Len(conns), shape \in Shapes, type \in EventTypes,
          uid \in EventUserIds : Notification(c, shape, type, uid)
    \/ \E l \in 1..MaxClients : Upgrade(l)
    \/ \E l \in 1..MaxClients : ClientClosed(l)

RelaySpec == HubInit /\ [][RelayNext]_vars

(* ------------------------------ fairness ------------------------------- *)
\* A socket whose close() was called gets its close event: the closing
\* handshake ends, or its timeout does.
ClosingEnds(c) ==
    /\ c \in 1..Len(conns)
    /\ conns[c].readyState = "CLOSING"
    /\ WsClosed(c)

FairSessionSpec ==
    SessionSpec /\ \A c \in 1..MaxConns : WF_vars(ClosingEnds(c))

\* A registration call that has been sent gets a response, and the db.read()
\* of a revocation returns.
RunProgress(c) ==
    /\ c \in 1..Len(conns)
    /\ \/ \E status \in Statuses : SubResponse(c, status)
       \/ SubRead(c)

\* The db.write() at the head of the queue finishes.
WriteEnds == SubWritten \/ RecWritten

FairRunSpec ==
    /\ SessionSpec
    /\ \A c \in 1..MaxConns : WF_vars(RunProgress(c))
    /\ WF_vars(WriteEnds)

(* ----------------------------- properties ------------------------------ *)
ConnIds == 1..Len(conns)

Registered(id) == Op("registerStreamer", 0, id)

\* C1: each accountId has at most one upstream connection that is still
\* connecting or open (a socket whose close() was called counts as closed).
C1_OneLiveConnectionPerAccount ==
    \A i, j \in ConnIds :
        (/\ conns[i].channelId = conns[j].channelId
         /\ Live(conns[i])
         /\ Live(conns[j])) => i = j

\* C2: a registration for an account whose session is not Closed creates no
\* connection and leaves the registry and every session (token, sessionId,
\* socket) as they were.
C2_IdempotentRegistration ==
    [][\A id \in Ids :
          (/\ lastOp' = Registered(id)
           /\ streamerSessions[id] # NoSession
           /\ conns[streamerSessions[id]].readyState # "CLOSED")
          => (conns' = conns /\ streamerSessions' = streamerSessions)]_vars

\* a registration has just been handled for an account whose session was
\* already open (a session just created would still be connecting)
C2_Witness ==
    \E id \in Ids :
        /\ lastOp = Registered(id)
        /\ streamerSessions[id] # NoSession
        /\ conns[streamerSessions[id]].readyState = "OPEN"
        /\ conns[streamerSessions[id]].sessionId # NoSessionId

\* C3: a reconnect directive creates exactly one new connection, for the same
\* accountId and token, which becomes the registry entry; the connection it
\* arrived on is no longer open, and reaches Closed.
C3_Reconnect ==
    /\ [][\A c \in ConnIds :
            lastOp' = Op("session_reconnect", c, conns[c].channelId)
            => /\ Len(conns') = Len(conns) + 1
               /\ \A k \in ConnIds \ {c} : conns'[k] = conns[k]
               /\ conns'[Len(conns')].channelId = conns[c].channelId
               /\ conns'[Len(conns')].token = conns[c].token
               /\ conns'[Len(conns')].readyState = "CONNECTING"
               /\ streamerSessions'[conns[c].channelId] = Len(conns')
               /\ conns[c].readyState = "OPEN"
               /\ conns'[c].readyState \in {"CLOSING", "CLOSED"}]_vars
    /\ \A c \in 1..MaxConns :
          (lastOp.op = "session_reconnect" /\ lastOp.c = c)
             ~> (c \in ConnIds /\ conns[c].readyState = "CLOSED")

\* a reconnect directive was handled and the connection it arrived on has
\* since closed, while the one that replaced it is open
C3_Witness ==
    \E c \in ConnIds, k \in ConnIds :
        /\ c < k
        /\ conns[c].readyState = "CLOSED"
        /\ conns[k].readyState = "OPEN"
        /\ conns[k].channelId = conns[c].channelId
        /\ conns[k].src = conns[c].src
        /\ streamerSessions[conns[c].channelId] = k
        /\ Cardinality({j \in ConnIds : conns[j].channelId = conns[c].channelId}) = 2
        /\ rec.res = <<>>
        /\ lastOp = Quiet

Topics ==
    <<"channel.hype_train.begin", "channel.hype_train.progress",
      "channel.hype_train.end">>

\* C4: the calls of a run are begin, progress, end in this order, each issued
\* only when every earlier one has returned, and none is issued once a call
\* has returned 401 or 403.
C4_CallsInOrder ==
    /\ [](\A c \in ConnIds :
            /\ Len(conns[c].calls) <= Len(Topics)
            /\ \A i \in 1..Len(conns[c].calls) :
                   conns[c].calls[i].type = Topics[i]
            /\ Len(conns[c].calls) - conns[c].nRet \in {0, 1})
    /\ [][\A c \in ConnIds :
            /\ Len(conns'[c].calls) > Len(conns[c].calls)
                  => conns'[c].nRet = Len(conns[c].calls)
            /\ conns[c].authFail => conns'[c].calls = conns[c].calls]_vars

\* a run whose first call succeeded and whose second call was refused has
\* ended with two calls issued
C4_Witness ==
    \E c \in ConnIds :
        /\ conns[c].authFail
        /\ conns[c].sub = "revoked"
        /\ Len(conns[c].calls) = 2
        /\ conns[c].nRet = 2

\* the credential a session was created from
Origin(s) == Entry(s.src, s.token)

\* C5: when a registration call of a session is refused with 401 or 403,
\* the credential the session was created from is no longer among the tokens
\* once the revocation has filtered them, nor in the file once it is written.
C5_RevokedCredentialAbsent ==
    [][\A c \in ConnIds :
          /\ (conns[c].sub = "dbread" /\ conns'[c].sub = "dbwrite")
                => Origin(conns[c]) \notin Range(dbData')
          /\ (conns[c].sub = "dbwrite" /\ conns'[c].sub = "revoked")
                => Origin(conns[c]) \notin Range(dbFile')]_vars

\* C6: the registry holds no entry that refers to a closed connection.
C6_ClosedSessionsLeaveRegistry ==
    \A id \in Ids :
        streamerSessions[id] # NoSession
           => conns[streamerSessions[id]].readyState # "CLOSED"

\* C7: a registration for an account none of whose connections is other than
\* Closed creates a connecting session for it and stores it in the registry.
C7_RegistrationAfterClose ==
    [][\A id \in Ids :
          (/\ lastOp' = Registered(id)
           /\ \A c \in ConnIds :
                 conns[c].channelId = id => conns[c].readyState = "CLOSED")
          => /\ Len(conns') = Len(conns) + 1
             /\ conns'[Len(conns')].channelId = id
             /\ conns'[Len(conns')].readyState = "CONNECTING"
             /\ streamerSessions'[id] = Len(conns')]_vars

ClientIds == 1..MaxClients

\* C8: a well-formed notification is sent once to every listener of the set
\* whose socket is open, and to no other listener.
C8_BroadcastToOpenListeners ==
    [][(nNotif' = nNotif + 1 /\ lastOp' = Quiet)
         => \E c \in ConnIds, type \in EventTypes, uid \in EventUserIds :
               LET env == [channelId |-> conns[c].channelId,
                           eventType |-> type, event |-> nNotif',
                           userId |-> IF uid = "7" THEN "7" ELSE Null]
               IN  /\ conns[c].readyState = "OPEN"
                   /\ \A l \in ClientIds :
                         recv'[l] =
                            IF /\ \E i \in 1..Len(widgetClients) :
                                     widgetClients[i] = l
                               /\ clientState[l] = "OPEN"
                            THEN recv[l] \o <<env>>
                            ELSE recv[l]]_vars

\* the first notification reached listener 2, which is open, and not listener
\* 1, which was accepted earlier, is still in the set and is closing
C8_Witness ==
    /\ nNotif = 1
    /\ widgetClients = <<1, 2>>
    /\ clientState[1] = "CLOSING"
    /\ clientState[2] = "OPEN"
    /\ recv[1] = <<>>
    /\ Len(recv[2]) = 1

\* C9: accepting a socket appends it to the listener set; its close event
\* removes it and leaves the others in place; nothing else changes the set,
\* so a broadcast removes no listener.
C9_ListenerSet ==
    /\ [](\A l \in ClientIds :
             (\E i \in 1..Len(widgetClients) : widgetClients[i] = l)
                <=> clientState[l] \in {"OPEN", "CLOSING"})
    /\ [][/\ \A l \in ClientIds :
               (clientState[l] = "NONE" /\ clientState'[l] # "NONE")
                  => widgetClients' = widgetClients \o <<l>>
          /\ \A l \in ClientIds :
               (clientState[l] # "CLOSED" /\ clientState'[l] = "CLOSED")
                  => \E i \in 1..Len(widgetClients) :
                        /\ widgetClients[i] = l
                        /\ Len(widgetClients') = Len(widgetClients) - 1
                        /\ \A j \in 1..(i - 1) :
                              widgetClients'[j] = widgetClients[j]
                        /\ \A j \in i..Len(widgetClients') :
                              widgetClients'[j] = widgetClients[j + 1]
          /\ widgetClients' # widgetClients
               => \E l \in ClientIds :
                     \/ clientState[l] = "NONE" /\ clientState'[l] = "OPEN"
                     \/ clientState[l] # "CLOSED" /\ clientState'[l] = "CLOSED"
          /\ nNotif' # nNotif => widgetClients' = widgetClients]_vars

\* listener 1 has closed and left the set after a broadcast that reached
\* listener 2, which is still in the set
C9_Witness ==
    /\ clientState[1] = "CLOSED"
    /\ widgetClients = <<2>>
    /\ Len(recv[1]) = 1
    /\ Len(recv[2]) = 2

\* C10: once the startup reconciliation has gone through the stored
\* credentials and every write has finished, with no save_token request in
\* between: a credential whose validation was refused is neither among the
\* tokens nor in the file and has no session, and a credential whose
\* validation succeeded has a session registered under the user_id the
\* validation resolved.
C10_Reconciled ==
    (rec.pc = "done" /\ writeQ = <<>> /\ nSaves = 0)
       => \A i \in 1..Len(rec.snap) :
             /\ rec.res[i] = [ok |-> FALSE, id |-> Null]
                   => /\ rec.snap[i] \notin Range(dbData)
                      /\ rec.snap[i] \notin Range(dbFile)
                      /\ \A c \in ConnIds : Origin(conns[c]) # rec.snap[i]
             /\ rec.res[i].ok
                   => /\ streamerSessions[rec.res[i].id] # NoSession
                      /\ conns[streamerSessions[rec.res[i].id]].channelId
                            = rec.res[i].id

\* C11: the token of a session never changes once the session is created;
\* handling a save_token request changes the token store only, and the
\* registration it sends for an account that has a session which is not
\* Closed leaves every session (token, sessionId, socket) and the registry
\* as they were.
C11_SessionTokenFixed ==
    /\ [][/\ Len(conns') >= Len(conns)
          /\ \A c \in ConnIds : conns'[c].token = conns[c].token]_vars
    /\ [][nSaves' # nSaves
            => (conns' = conns /\ streamerSessions' = streamerSessions)]_vars
    /\ [][\A id \in Ids :
            (/\ lastOp' = Registered(id)
             /\ pendingReg' # pendingReg
             /\ \E c \in ConnIds : /\ conns[c].channelId = id
                                   /\ conns[c].readyState # "CLOSED")
            => (conns' = conns /\ streamerSessions' = streamerSessions)]_vars

\* the registration of a save_token request that refreshed the token of an
\* account was handled while the session of the account, created from the
\* older token, was open and welcomed: the file holds the new token, the
\* session the old one
C11_Witness ==
    \E id \in Ids :
        /\ lastOp = Registered(id)
        /\ nSaves = 1
        /\ pendingReg = {}
        /\ streamerSessions[id] # NoSession
        /\ LET s == conns[streamerSessions[id]]
           IN  /\ s.readyState = "OPEN"
               /\ s.sessionId # NoSessionId
               /\ \E i \in 1..Len(dbFile) :
                     /\ dbFile[i].userId = id
                     /\ dbFile[i].token # s.token

\* the sessions of account B and its registry entry are as they were
Untouched(B) ==
    /\ streamerSessions'[B] = streamerSessions[B]
    /\ \A c \in ConnIds : conns[c].channelId = B => conns'[c] = conns[c]

HasSession(B) == \E c \in ConnIds : conns[c].channelId = B

\* C12: a handler run for account A (a message, a response or the end of a
\* write of the registration run of a session of A, a close of its socket, a
\* registration of A, the startup validation of the credential stored for A)
\* leaves the registry entry and every session of each other account B that
\* has a session as they were.
C12_OtherSessionsUntouched ==
    [][IF Len(rec'.res) = Len(rec.res) + 1
       THEN \A B \in Ids \ {rec.snap[Len(rec.res) + 1].userId} :
               HasSession(B) => Untouched(B)
       ELSE IF lastOp'.op = "registerStreamer"
       THEN \A B \in Ids \ {lastOp'.id} : HasSession(B) => Untouched(B)
       ELSE \E A \in Ids :
               /\ \A c \in ConnIds :
                     conns'[c] # conns[c] => conns[c].channelId = A
               /\ \A B \in Ids \ {A} : HasSession(B) => Untouched(B)]_vars

\* C13: when the revocation of a registration run ends, the connection whose
\* welcome started the run is no longer open and no other connection has
\* been closed by it.
C13_RevocationClosesOwner ==
    [][\A c \in ConnIds :
          (conns[c].sub = "dbwrite" /\ conns'[c].sub = "revoked")
          => /\ conns'[c].readyState # "OPEN"
             /\ \A k \in ConnIds \ {c} :
                   conns'[k].readyState = conns[k].readyState]_vars

\* C14: a session has issued a registration call only if a welcome assigned
\* its sessionId, and every call of its run carries that sessionId as
\* session_id and the token and channelId of the session.
C14_CallsCarrySessionId ==
    \A c \in ConnIds :
        /\ conns[c].sub # "none" => conns[c].sessionId # NoSessionId
        /\ conns[c].calls # <<>> => conns[c].sub # "none"
        /\ \A i \in 1..Len(conns[c].calls) :
              /\ conns[c].calls[i].session_id # NoSessionId
              /\ conns[c].calls[i].session_id = conns[c].sessionId
              /\ conns[c].calls[i].broadcaster_user_id = conns[c].channelId
              /\ conns[c].calls[i].token = conns[c].token

\* a run has issued its three calls and ended, and the registry names another
\* session of the account, which has had no welcome
C14_Witness ==
    \E c \in ConnIds :
        /\ Len(conns[c].calls) = 3
        /\ conns[c].sub = "done"
        /\ streamerSessions[conns[c].channelId] # c
        /\ conns[streamerSessions[conns[c].channelId]].sessionId = NoSessionId
        /\ rec.res = <<>>

\* C15: a response to a registration call that is neither a success nor a
\* 401 or 403 changes neither the tokens nor the file, closes no socket and
\* leaves the registry alone; the run issues the call of the next topic, or
\* ends when the refused call was the last one; a run that has ended without
\* a revocation has issued each of the three topics once.
C15_RefusedCallContinues ==
    /\ [][\A c \in ConnIds :
            lastOp' = Op("refused", c, "")
            => /\ conns[c].sub = "fetch"
               /\ dbData' = dbData /\ dbFile' = dbFile /\ writeQ' = writeQ
               /\ streamerSessions' = streamerSessions
               /\ Len(conns') = Len(conns)
               /\ \A k \in ConnIds :
                     conns'[k].readyState = conns[k].readyState
               /\ conns'[c].nRet = conns[c].nRet + 1
               /\ IF Len(conns[c].calls) < Len(Topics)
                  THEN /\ conns'[c].sub = "fetch"
                       /\ Len(conns'[c].calls) = Len(conns[c].calls) + 1
                       /\ \A i \in 1..Len(conns[c].calls) :
                             conns'[c].calls[i] = conns[c].calls[i]
                       /\ conns'[c].calls[Len(conns'[c].calls)].type
                             = Topics[Len(conns'[c].calls)]
                  ELSE /\ conns'[c].sub = "done"
                       /\ conns'[c].calls = conns[c].calls]_vars
    /\ [](\A c \in ConnIds :
             conns[c].sub = "done"
                => /\ [i \in 1..Len(conns[c].calls) |-> conns[c].calls[i].type]
                         = Topics
                   /\ conns[c].nRet = Len(Topics))

\* the first call of a run was refused with a 500: the second call has been
\* issued, the socket is open and the credential of the session is in the file
C15_Witness ==
    \E c \in ConnIds :
        /\ lastOp = Op("refused", c, "")
        /\ conns[c].nRet = 1
        /\ Len(conns[c].calls) = 2
        /\ conns[c].readyState = "OPEN"
        /\ ~conns[c].authFail
        /\ Origin(conns[c]) \in Range(dbFile)

\* subscribeToEvents, started by the welcome of the session, has not returned
RunSuspended(s) == s.sub \in {"fetch", "dbread", "dbwrite"}

\* C16: every listener gets the envelopes in the order in which the
\* notifications arrived, and a notification or a reconnect directive of a
\* connection is not handled while the registration run started by the
\* welcome of that connection has not finished.
C16_ArrivalOrder ==
    /\ [](\A l \in ClientIds :
             \A i, j \in 1..Len(recv[l]) :
                 i < j => recv[l][i].event < recv[l][j].event)
    /\ [][\A c \in ConnIds :
            (\/ \E shape \in Shapes, type \in EventTypes, uid \in EventUserIds :
                   Notification(c, shape, type, uid)
             \/ lastOp' = Op("session_reconnect", c, conns[c].channelId))
            => ~RunSuspended(conns[c])]_vars

\* C17: a notification without event or without subscription reaches no
\* listener and changes no session, no socket, no registry entry and no
\* listener; the connection it arrived on is still open, and a well-formed
\* notification that arrives on it next is handled.
C17_MalformedDropped ==
    /\ [][\A c \in ConnIds :
            lastOp' = Op("malformed", c, "")
            => /\ recv' = recv
               /\ conns' = conns
               /\ streamerSessions' = streamerSessions
               /\ widgetClients' = widgetClients
               /\ clientState' = clientState]_vars
    /\ [](\A c \in ConnIds :
             lastOp = Op("malformed", c, "")
                => /\ conns[c].readyState = "OPEN"
                   /\ nNotif < MaxNotifs
                         => ENABLED (\E type \in EventTypes,
                                        uid \in EventUserIds :
                                        Notification(c, "ok", type, uid)))

\* the second notification of a connection was malformed: listener 1, which
\* is open and got the envelope of the first, got nothing for the second
C17_Witness ==
    \E c \in ConnIds :
        /\ lastOp = Op("malformed", c, "")
        /\ nNotif = 2
        /\ clientState[1] = "OPEN"
        /\ widgetClients # <<>>
        /\ Len(recv[1]) = 1
        /\ recv[1][1].event = 1
        /\ recv[1][1].channelId = conns[c].channelId

\* C18: a step that creates an upstream connection creates one, and it is the
\* handling of a registration request, of a stored credential that the
\* startup validation accepted, or of a reconnect directive; the close event
\* of a socket, its error event and the steps of a revocation create no
\* connection and leave the registry as it was.
C18_ConnectionCreatedOnlyBy ==
    /\ [][Len(conns') # Len(conns)
            => /\ Len(conns') = Len(conns) + 1
               /\ \/ lastOp'.op = "registerStreamer"
                  \/ lastOp'.op = "session_reconnect"
                  \/ /\ Len(rec'.res) = Len(rec.res) + 1
                     /\ rec'.res[Len(rec'.res)].ok]_vars
    /\ [][\A c \in ConnIds :
            (\/ conns[c].readyState # "CLOSED" /\ conns'[c].readyState = "CLOSED"
             \/ lastOp' = Op("onerror", c, "")
             \/ /\ conns'[c].sub # conns[c].sub
                /\ conns'[c].sub \in {"dbread", "dbwrite", "revoked"})
            => (Len(conns') = Len(conns)
                  /\ streamerSessions' = streamerSessions)]_vars

\* the only session, welcomed and still the registry entry of its account,
\* has been closed by an error event and no connection has been created
C18_Witness ==
    \E c \in ConnIds :
        /\ lastOp = Op("onerror", c, "")
        /\ conns[c].readyState = "CLOSED"
        /\ conns[c].sessionId # NoSessionId
        /\ streamerSessions[conns[c].channelId] = c
        /\ Len(conns) = 1

RunEnded(s) == s.sub \in {"done", "revoked", "threw"}

\* C19: the registration run of every session that got a welcome ends; when
\* it ends with no call refused with 401 or 403 and the socket of the session
\* neither closed nor replaced by a reconnect directive (still open), the
\* session has its sessionId and is the registry entry of its channelId.
C19_RunEndsActive ==
    /\ \A c \in 1..MaxConns :
          (c \in ConnIds /\ conns[c].sub # "none")
             ~> (c \in ConnIds /\ RunEnded(conns[c]))
    /\ [][\A c \in ConnIds :
            (/\ conns[c].sub # "done"
             /\ conns'[c].sub = "done"
             /\ ~conns'[c].authFail
             /\ conns'[c].readyState = "OPEN")
            => /\ conns'[c].sessionId # NoSessionId
               /\ streamerSessions'[conns[c].channelId] = c]_vars

\* every entry of tokens other than e is still in tokens2
OnlyRemoved(tokens, tokens2, e) ==
    \A x \in Range(tokens) : x # e => x \in Range(tokens2)

\* C20: a removal takes only the rejected credential out of the store: when
\* the revocation of a run or the startup reconciliation filters the tokens,
\* and when the write of that removal finishes, every other entry that was
\* among the tokens, or in the file, is still there, one that save_token
\* stored in the meantime included.
C20_RemovalKeepsOthers ==
    [][/\ \A c \in ConnIds :
            LET e == Entry(conns[c].channelId, conns[c].token)
            IN  /\ (conns[c].sub = "dbread" /\ conns'[c].sub = "dbwrite")
                      => OnlyRemoved(dbData, dbData', e)
                /\ (conns[c].sub = "dbwrite" /\ conns'[c].sub = "revoked")
                      => OnlyRemoved(dbFile, dbFile', e)
       /\ (rec.pc = "validate" /\ rec'.pc = "write")
             => OnlyRemoved(dbData, dbData', rec.snap[Len(rec'.res)])
       /\ (rec.pc = "write" /\ rec'.pc # "write")
             => OnlyRemoved(dbFile, dbFile', rec.snap[Len(rec.res)])]_vars

====
